---- MODULE Spec2Model ----
(***************************************************************************)
(* A model of ArchiverTool: the REST client (archiver_tool.py: the         *)
(* command-line run and the query() function, with the concurrent          *)
(* do_request fan-out) and the low-level Cassandra client                  *)
(* (lowlevel_tool.py: LowlevelSignal.parse_datetimerange, data_query and   *)
(* async_get_data).                                                        *)
(*                                                                         *)
(* The two programs share no state.  SpecRest runs the REST client,        *)
(* SpecSplit runs parse_datetimerange alone, SpecLow runs async_get_data   *)
(* (which calls parse_datetimerange first).  Each specification holds the  *)
(* other program's variables at their idle values.                         *)
(***************************************************************************)
EXTENDS Integers, Sequences, FiniteSets, TLC

(***************************************************************************)
(* Bounds of the model.                                                    *)
(***************************************************************************)
\* Search patterns given to one run (the 'signal' arguments).
MaxPatterns == 1
\* Attributes all searches of one run resolve to, in total.
MaxSignals == 2
\* Datapoints in one query response.
MaxPoints == 1
\* Characters in the INTERVAL argument.
MaxIntervalLen == 4
\* Calendar dates of the model's calendar; the last one stands for date.max.
MaxDays == 3
\* Whole seconds in one calendar day (86400, scaled down).
SecondsPerDay == 2
\* Clock resolution: instants per second (datetime has 10^6, scaled down).
TicksPerSecond == 2

VARIABLES
    \* ---- archiver_tool.py
    entry,       \* "cli" (the __main__ run) or "query" (the query() function)
    pc,          \* position of the REST program
    interval,    \* the INTERVAL argument, a sequence of characters
    npatterns,   \* number of search patterns given
    searchSent,  \* search requests posted so far (get_attributes' loop index)
    attributes,  \* the resolved attribute names, in order
    queryLog,    \* query requests handed to requests.post, in order
    futures,     \* do_request's futures: [sig, state, resp], in submit order
    completed,   \* history: indices of futures in the order they completed
    awaitIdx,    \* do_request's enumerate index i (1-based)
    responses,   \* the responses list of do_request / sync_do_request
    toFile,      \* whether --file was given
    outputs,     \* texts written (one file or one print per response)
    result,      \* what query() returned: <<timestamp, data>>
    \* ---- lowlevel_tool.py
    lpc,         \* position of the low-level program
    start,       \* datetimerange[0]
    end,         \* datetimerange[1]
    periods,     \* parse_datetimerange's periods list
    timeranges,  \* parse_datetimerange's timeranges list
    runningdate, \* parse_datetimerange's loop variable
    iterations,  \* history: iterations of the while loop executed
    resultsets,  \* async_get_data's futures: [query, state, rows]
    finished,    \* history: indices of queries in the order they completed
    resIdx,      \* index of the future whose result() is awaited next
    t,           \* async_get_data's returned timestamps
    data         \* async_get_data's returned values

restVars == <<entry, pc, interval, npatterns, searchSent, attributes,
              queryLog, futures, completed, awaitIdx, responses, toFile, outputs,
              result>>
lowVars == <<lpc, start, end, periods, timeranges, runningdate, iterations,
             resultsets, finished, resIdx, t, data>>
vars == <<restVars, lowVars>>

(***************************************************************************)
(* archiver_tool.py: values                                                *)
(***************************************************************************)
\* The characters an INTERVAL argument is made of: a digit, the dot, a unit
\* letter, and a letter that is no unit.
IntervalChars == {"5", ".", "s", "x"}
DigitChars == {"5"}
UnitChars == {"s", "m", "h"}
Intervals == UNION {[1..n -> IntervalChars] : n \in 1..MaxIntervalLen}

\* The name of the j-th attribute the search for the p-th pattern matched.
AttrName(p, j) == <<p, j>>

\* The future's result before the executor sets it.
NoResp == [req |-> <<>>, status |-> 0, json |-> FALSE, array |-> <<>>]

\* datapoints: [[value, epoch_ms], ...]
Points(n) == [j \in 1..n |-> <<j, 1000 * j>>]

\* What requests.post(QUERYURL, json=payload) can return for a payload naming
\* signal sig: a non-success status with an error text, or status 200 with a
\* JSON array that is empty or holds one object {target, datapoints}.
BackendResponses(sig) ==
    {[req |-> sig, status |-> 500, json |-> FALSE, array |-> <<>>]}
    \cup {[req |-> sig, status |-> 200, json |-> TRUE, array |-> <<>>]}
    \cup {[req |-> sig, status |-> 200, json |-> TRUE,
           array |-> <<[target |-> sig, datapoints |-> Points(n)]>>]
          : n \in 0..MaxPoints}

makequerypayload(signal, intv) == [target |-> signal, interval |-> intv]

\* interval_value: whether re.match('\d+\.*\d*[smh]$', val) matches, i.e. val
\* is digits (1..i), dots (i+1..j), digits (j+1..k), one unit letter, the end.
interval_value(val) ==
    \E i \in 1..Len(val) : \E j \in i..Len(val) : \E k \in j..Len(val) :
        /\ k + 1 = Len(val)
        /\ \A p \in 1..i : val[p] \in DigitChars
        /\ \A p \in (i + 1)..j : val[p] = "."
        /\ \A p \in (j + 1)..k : val[p] \in DigitChars
        /\ val[k + 1] \in UnitChars

\* parse_response: the lines of the text, or threw when the code raises.
\* A non-200 response gives {'target': resp.text, 'datapoints': []}; a 200
\* response gives json.loads(resp.text)[0], an IndexError on an empty array.
parse_response(resp) ==
    IF resp.status # 200
    THEN [threw |-> FALSE,
          lines |-> <<[kind |-> "DATASET", a |-> <<"text", resp.req>>, b |-> 0],
                      [kind |-> "SNAPSHOT_TIME", a |-> <<>>, b |-> 0]>>]
    ELSE IF Len(resp.array) = 0
    THEN [threw |-> TRUE, lines |-> <<>>]
    ELSE LET d == resp.array[1]
         IN  [threw |-> FALSE,
              lines |-> <<[kind |-> "DATASET", a |-> <<"attr", d.target>>, b |-> 0],
                          [kind |-> "SNAPSHOT_TIME", a |-> <<>>, b |-> 0]>>
                        \o [j \in 1..Len(d.datapoints) |->
                              [kind |-> "POINT",
                               a |-> <<d.datapoints[j][2] * 1000>>,
                               b |-> d.datapoints[j][1]]]]

\* query()'s cardinality checks on the resolved attributes: where it goes next.
query_check_NoAmbiguity(attrs) ==
    IF Len(attrs) = 0 THEN "nomatch" ELSE "sync_request"
query_check(attrs) ==
    IF Len(attrs) = 0 THEN "nomatch"
    ELSE IF Len(attrs) # 1 THEN "ambiguous"
    ELSE "sync_request"

\* do_request's second loop, 'for i, fut in enumerate(futures)': the future
\* awaited in iteration i, and whether the loop is over.
AwaitedFuture_ByCompletion(i) ==
    IF i <= Len(completed) THEN completed[i] ELSE i
AwaitedFuture(i) == i

AwaitLoopDone_OffByOne(i) == i >= Len(futures)
AwaitLoopDone(i) == i > Len(futures)

(***************************************************************************)
(* archiver_tool.py: operations                                            *)
(***************************************************************************)
RestIdle ==
    /\ entry = "none" /\ pc = "idle" /\ interval = <<>> /\ npatterns = 0
    /\ searchSent = 0 /\ attributes = <<>> /\ queryLog = <<>>
    /\ futures = <<>> /\ completed = <<>> /\ awaitIdx = 0
    /\ responses = <<>> /\ toFile = FALSE /\ outputs = <<>>
    /\ result = <<>>

\* argparse applies type=interval_value to --interval before anything runs.
ParseArgs ==
    /\ entry = "cli" /\ pc = "args"
    /\ pc' = IF interval_value(interval) THEN "search" ELSE "usage_error"
    /\ UNCHANGED <<entry, interval, npatterns, searchSent, attributes,
                   queryLog, futures, completed, awaitIdx, responses,
                   toFile, outputs, result, lowVars>>

\* One iteration of get_attributes' loop: post the search, extend attributes;
\* a ConnectionError becomes a ValueError nobody catches.
GetAttributes ==
    /\ pc = "search" /\ searchSent < npatterns
    /\ searchSent' = searchSent + 1
    /\ \/ /\ pc' = "fatal"
          /\ UNCHANGED attributes
       \/ \E m \in 0..(MaxSignals - Len(attributes)) :
            /\ attributes' = attributes \o
                   [j \in 1..m |-> AttrName(searchSent + 1, j)]
            /\ UNCHANGED pc
    /\ UNCHANGED <<entry, interval, npatterns, queryLog, futures, completed,
                   awaitIdx, responses, toFile, outputs, result, lowVars>>

\* __main__: get_attributes returned; run do_request on the event loop.
RunDoRequest ==
    /\ entry = "cli" /\ pc = "search" /\ searchSent = npatterns
    /\ pc' = "submit"
    /\ UNCHANGED <<entry, interval, npatterns, searchSent, attributes,
                   queryLog, futures, completed, awaitIdx, responses,
                   toFile, outputs, result, lowVars>>

\* do_request, first loop: build the payload and hand the post to the executor.
Submit ==
    /\ pc = "submit" /\ Len(futures) < Len(attributes)
    /\ LET sig == attributes[Len(futures) + 1]
       IN  /\ futures' = Append(futures,
                  [sig |-> sig, state |-> "running", resp |-> NoResp])
           /\ queryLog' = Append(queryLog, makequerypayload(sig, interval))
    /\ UNCHANGED <<entry, pc, interval, npatterns, searchSent, attributes,
                   completed, awaitIdx, responses, toFile, outputs, result,
                   lowVars>>

\* do_request: the first loop is over; task_count = len(futures).
BeginAwait ==
    /\ pc = "submit" /\ Len(futures) = Len(attributes)
    /\ pc' = "await"
    /\ awaitIdx' = 1
    /\ UNCHANGED <<entry, interval, npatterns, searchSent, attributes,
                   queryLog, futures, completed, responses, toFile, outputs,
                   result, lowVars>>

\* An executor thread finishes requests.post for future k: a response, or an
\* exception (requests.exceptions.ConnectionError) stored in the future.
TaskComplete(k) ==
    /\ k \in 1..Len(futures)
    /\ futures[k].state = "running"
    /\ \/ futures' = [futures EXCEPT ![k].state = "raised"]
       \/ \E r \in BackendResponses(futures[k].sig) :
            futures' = [futures EXCEPT ![k].state = "done", ![k].resp = r]
    /\ completed' = Append(completed, k)
    /\ UNCHANGED <<entry, pc, interval, npatterns, searchSent, attributes,
                   queryLog, awaitIdx, responses, toFile, outputs, result,
                   lowVars>>

\* do_request, second loop: 'resp = yield from fut' resumes once the future is
\* set, with its result or by raising its exception.
Await ==
    /\ pc = "await" /\ ~AwaitLoopDone(awaitIdx)
    /\ LET fut == futures[AwaitedFuture(awaitIdx)]
       IN  /\ fut.state # "running"
           /\ IF fut.state = "done"
              THEN /\ responses' = Append(responses, fut.resp)
                   /\ awaitIdx' = awaitIdx + 1
                   /\ UNCHANGED pc
              ELSE /\ pc' = "raised"
                   /\ UNCHANGED <<responses, awaitIdx>>
    /\ UNCHANGED <<entry, interval, npatterns, searchSent, attributes,
                   queryLog, futures, completed, toFile, outputs, result,
                   lowVars>>

\* do_request returns responses to __main__.
Return ==
    /\ pc = "await" /\ AwaitLoopDone(awaitIdx)
    /\ pc' = "output"
    /\ UNCHANGED <<entry, interval, npatterns, searchSent, attributes,
                   queryLog, futures, completed, awaitIdx, responses,
                   toFile, outputs, result, lowVars>>

\* __main__: one iteration of the output loop, to a file or to stdout.
Output ==
    /\ pc = "output" /\ Len(outputs) < Len(responses)
    /\ LET i == Len(outputs) + 1
           p == parse_response(responses[i])
       IN  IF p.threw
           THEN /\ pc' = "crashed"
                /\ UNCHANGED outputs
           ELSE /\ outputs' = Append(outputs,
                       [file |-> IF toFile THEN <<i>> ELSE <<>>,
                        text |-> p.lines])
                /\ UNCHANGED pc
    /\ UNCHANGED <<entry, interval, npatterns, searchSent, attributes,
                   queryLog, futures, completed, awaitIdx, responses,
                   toFile, result, lowVars>>

\* __main__: the output loop is over and the program exits.
Finish ==
    /\ pc = "output" /\ Len(outputs) = Len(responses)
    /\ pc' = "done"
    /\ UNCHANGED <<entry, interval, npatterns, searchSent, attributes,
                   queryLog, futures, completed, awaitIdx, responses,
                   toFile, outputs, result, lowVars>>

\* query(): get_attributes returned; the two cardinality checks.
QueryCheck ==
    /\ entry = "query" /\ pc = "search" /\ searchSent = npatterns
    /\ pc' = query_check(attributes)
    /\ UNCHANGED <<entry, interval, npatterns, searchSent, attributes,
                   queryLog, futures, completed, awaitIdx, responses,
                   toFile, outputs, result, lowVars>>

\* sync_do_request: one iteration, a blocking post that returns or raises.
SyncPost ==
    /\ pc = "sync_request" /\ Len(responses) < Len(attributes)
    /\ LET sig == attributes[Len(responses) + 1]
       IN  /\ queryLog' = Append(queryLog, makequerypayload(sig, interval))
           /\ \/ /\ pc' = "raised"
                 /\ UNCHANGED responses
              \/ \E r \in BackendResponses(sig) :
                   /\ responses' = Append(responses, r)
                   /\ UNCHANGED pc
    /\ UNCHANGED <<entry, interval, npatterns, searchSent, attributes,
                   futures, completed, awaitIdx, toFile, outputs, result,
                   lowVars>>

\* query(): format every response, then read the body lines of the first
\* text back into (timestamp, data).
QueryParse ==
    /\ pc = "sync_request" /\ Len(responses) = Len(attributes)
    /\ IF \E i \in 1..Len(responses) : parse_response(responses[i]).threw
       THEN /\ pc' = "crashed"
            /\ UNCHANGED result
       ELSE LET body == SubSeq(parse_response(responses[1]).lines, 3,
                               Len(parse_response(responses[1]).lines))
            IN  /\ result' = <<[j \in 1..Len(body) |-> body[j].a[1]],
                               [j \in 1..Len(body) |-> body[j].b]>>
                /\ pc' = "done"
    /\ UNCHANGED <<entry, interval, npatterns, searchSent, attributes,
                   queryLog, futures, completed, awaitIdx, responses,
                   toFile, outputs, lowVars>>


(***************************************************************************)
(* archiver_tool.py: the specification                                     *)
(***************************************************************************)
LowIdle ==
    /\ lpc = "idle" /\ start = 0 /\ end = 0 /\ periods = <<>>
    /\ timeranges = <<>> /\ runningdate = 0 /\ iterations = 0
    /\ resultsets = <<>> /\ finished = <<>> /\ resIdx = 0
    /\ t = <<>> /\ data = <<>>

InitRest ==
    /\ entry \in {"cli", "query"}
    /\ pc = IF entry = "cli" THEN "args" ELSE "search"
    /\ interval \in Intervals
    /\ npatterns \in 1..MaxPatterns
    /\ toFile \in IF entry = "cli" THEN BOOLEAN ELSE {FALSE}
    /\ searchSent = 0 /\ attributes = <<>> /\ queryLog = <<>>
    /\ futures = <<>> /\ completed = <<>> /\ awaitIdx = 0
    /\ responses = <<>> /\ outputs = <<>> /\ result = <<>>
    /\ LowIdle

NextRest ==
    \/ ParseArgs
    \/ GetAttributes
    \/ RunDoRequest
    \/ Submit
    \/ BeginAwait
    \/ \E k \in 1..MaxSignals : TaskComplete(k)
    \/ Await
    \/ Return
    \/ Output
    \/ Finish
    \/ QueryCheck
    \/ SyncPost
    \/ QueryParse

SpecRest == InitRest /\ [][NextRest]_vars

(***************************************************************************)
(* lowlevel_tool.py: values                                                *)
(***************************************************************************)
\* Instants are counted in ticks from 00:00:00 of date 0.
TicksPerDay == SecondsPerDay * TicksPerSecond
Instants == 0..(MaxDays * TicksPerDay - 1)
\* date.max: adding a timedelta beyond it raises OverflowError.
DateMax == MaxDays - 1

\* Python's None, in the timeranges tuples.
None == -1

\* datetime.date()
date(dt) == dt \div TicksPerDay
\* datetime.combine(date, time): tm is the tick of the time within its day.
combine(d, tm) == d * TicksPerDay + tm
\* time(0, 0, 0) and time(23, 59, 59) as ticks within the day.
time_0_0_0 == 0 * TicksPerSecond
time_23_59_59 == (SecondsPerDay - 1) * TicksPerSecond

\* runningdate += timedelta(days=1)
NextDate_TwoDays(d) == d + 2
NextDate(d) == d + 1

\* parse_datetimerange's test 'start.date() == end.date()'.
same_date_Never(s, e) == FALSE
same_date(s, e) == date(s) = date(e)

\* data_query: the period and the exclusive bounds on data_time of the query
\* for one date and one timerange tuple.
data_query(d, timerange) ==
    [period |-> d,
     start |-> IF timerange[1] = None THEN combine(d, time_0_0_0)
               ELSE timerange[1],
     end |-> IF timerange[2] = None THEN combine(d, time_23_59_59)
             ELSE timerange[2]]

\* The archive holds one row per instant; value_r of the row at instant x.
ValueAt(x) == (x * 3) % 7
Row(x) == [data_time |-> x, value_r |-> ValueAt(x)]

\* The elements of a finite set of integers, ascending.
RECURSIVE Ascending(_)
Ascending(S) ==
    IF S = {} THEN <<>>
    ELSE LET m == CHOOSE x \in S : \A y \in S : x <= y
         IN  <<m>> \o Ascending(S \ {m})

\* The rows the backend returns for a query, in clustering (time) order:
\* period = q.period and data_time > q.start and data_time < q.end.
ExecuteQuery(q) ==
    LET hits == Ascending({x \in Instants : /\ date(x) = q.period
                                           /\ x > q.start
                                           /\ x < q.end})
    IN  [j \in 1..Len(hits) |-> Row(hits[j])]

\* async_get_data: the order in which the result sets are read out.
ResultOrder_ByCompletion == finished
ResultOrder == [i \in 1..Len(resultsets) |-> i]

\* The rows of the result sets named by order, one after the other.
RECURSIVE Chain(_)
Chain(order) ==
    IF order = <<>> THEN <<>>
    ELSE resultsets[Head(order)].rows \o Chain(Tail(order))

(***************************************************************************)
(* lowlevel_tool.py: operations                                            *)
(***************************************************************************)
\* parse_datetimerange up to the while loop: the same-date early return, or
\* the first period and its (start, None) tuple.
ParseEntry ==
    /\ lpc = "parse"
    /\ IF same_date(start, end)
       THEN /\ periods' = <<date(start)>>
            /\ timeranges' = << <<start, end>> >>
            /\ lpc' = "parsed"
            /\ UNCHANGED runningdate
       ELSE /\ periods' = <<date(start)>>
            /\ runningdate' = date(start)
            /\ timeranges' = << <<start, None>> >>
            /\ lpc' = "loop"
    /\ UNCHANGED <<start, end, iterations, resultsets, finished, resIdx, t,
                   data, restVars>>

\* One iteration of 'while not runningdate == end.date()'.
LoopStep ==
    /\ lpc = "loop" /\ runningdate # date(end)
    /\ IF NextDate(runningdate) > DateMax
       THEN /\ lpc' = "overflow"
            /\ UNCHANGED <<runningdate, periods, timeranges, iterations>>
       ELSE /\ runningdate' = NextDate(runningdate)
            /\ periods' = Append(periods, NextDate(runningdate))
            /\ timeranges' = Append(timeranges, <<None, None>>)
            /\ iterations' = iterations + 1
            /\ UNCHANGED lpc
    /\ UNCHANGED <<start, end, resultsets, finished, resIdx, t, data,
                   restVars>>

\* The loop is over: 'timeranges[-1] = (None, end)' and the return.
LoopExit ==
    /\ lpc = "loop" /\ runningdate = date(end)
    /\ timeranges' = [timeranges EXCEPT ![Len(timeranges)] = <<None, end>>]
    /\ lpc' = "parsed"
    /\ UNCHANGED <<start, end, periods, runningdate, iterations, resultsets,
                   finished, resIdx, t, data, restVars>>

\* async_get_data, first comprehension: execute_async for the next
\* (period, timerange) of zip(periods, timeranges).
IssueQuery ==
    /\ lpc = "parsed"
    /\ Len(resultsets) < Len(periods) /\ Len(resultsets) < Len(timeranges)
    /\ LET i == Len(resultsets) + 1
       IN  resultsets' = Append(resultsets,
               [query |-> data_query(periods[i], timeranges[i]),
                state |-> "running", rows |-> <<>>])
    /\ UNCHANGED <<lpc, start, end, periods, timeranges, runningdate,
                   iterations, finished, resIdx, t, data, restVars>>

\* The first comprehension is over; the second starts calling result().
BeginResults ==
    /\ lpc = "parsed"
    /\ ~(Len(resultsets) < Len(periods) /\ Len(resultsets) < Len(timeranges))
    /\ lpc' = "result"
    /\ resIdx' = 1
    /\ UNCHANGED <<start, end, periods, timeranges, runningdate, iterations,
                   resultsets, finished, t, data, restVars>>

\* The driver finishes query k: its rows, or an error stored in the future.
QueryComplete(k) ==
    /\ k \in 1..Len(resultsets)
    /\ resultsets[k].state = "running"
    /\ \/ resultsets' = [resultsets EXCEPT ![k].state = "failed"]
       \/ resultsets' = [resultsets EXCEPT
              ![k].state = "done",
              ![k].rows = ExecuteQuery(resultsets[k].query)]
    /\ finished' = Append(finished, k)
    /\ UNCHANGED <<lpc, start, end, periods, timeranges, runningdate,
                   iterations, resIdx, t, data, restVars>>

\* async_get_data, second comprehension: result() blocks until the query is
\* finished, and raises its error.
AwaitResult ==
    /\ lpc = "result" /\ resIdx <= Len(resultsets)
    /\ resultsets[resIdx].state # "running"
    /\ IF resultsets[resIdx].state = "done"
       THEN /\ resIdx' = resIdx + 1
            /\ UNCHANGED lpc
       ELSE /\ lpc' = "raised"
            /\ UNCHANGED resIdx
    /\ UNCHANGED <<start, end, periods, timeranges, runningdate, iterations,
                   resultsets, finished, t, data, restVars>>

\* async_get_data: the nested loops that fill data and t, and the return.
Collect ==
    /\ lpc = "result" /\ resIdx > Len(resultsets)
    /\ LET rows == Chain(ResultOrder)
       IN  /\ data' = [j \in 1..Len(rows) |-> rows[j].value_r]
           /\ t' = [j \in 1..Len(rows) |-> rows[j].data_time]
    /\ lpc' = "done"
    /\ UNCHANGED <<start, end, periods, timeranges, runningdate, iterations,
                   resultsets, finished, resIdx, restVars>>

(***************************************************************************)
(* lowlevel_tool.py: the specifications                                    *)
(***************************************************************************)
InitLow ==
    /\ lpc = "parse"
    /\ start \in Instants
    /\ end \in Instants
    /\ periods = <<>> /\ timeranges = <<>> /\ runningdate = 0
    /\ iterations = 0 /\ resultsets = <<>> /\ finished = <<>>
    /\ resIdx = 0 /\ t = <<>> /\ data = <<>>
    /\ RestIdle

\* parse_datetimerange called on its own.
NextSplit ==
    \/ ParseEntry
    \/ LoopStep
    \/ LoopExit

SpecSplit == InitLow /\ [][NextSplit]_vars

\* The interpreter keeps running the loop: a step that can be taken is taken.
FairSpecSplit == SpecSplit /\ WF_vars(NextSplit)

\* async_get_data, parse_datetimerange included.
NextLow ==
    \/ ParseEntry
    \/ LoopStep
    \/ LoopExit
    \/ IssueQuery
    \/ BeginResults
    \/ \E k \in 1..MaxDays : QueryComplete(k)
    \/ AwaitResult
    \/ Collect

SpecLow == InitLow /\ [][NextLow]_vars

(***************************************************************************)
(* Properties of the REST client (SpecRest)                                *)
(***************************************************************************)
\* do_request has returned to __main__.
Returned == entry = "cli" /\ pc \in {"output", "done", "crashed"}

\* C1: whenever do_request has returned, it returned exactly one response per
\* input signal, and the response at position i is the result of the future
\* submitted for the i-th signal (it answers the request that named that
\* signal), whatever the order the futures completed in; and do_request ends
\* without returning only when a task produced no response but an exception.
C1_ResponsesByPosition ==
    /\ Returned =>
         /\ Len(responses) = Len(attributes)
         /\ \A i \in 1..Len(responses) :
              /\ responses[i] = futures[i].resp
              /\ responses[i].req = attributes[i]
    /\ (entry = "cli" /\ pc = "raised") =>
         \E k \in 1..Len(futures) : futures[k].state = "raised"

\* C1 witness: do_request returned two or more responses although a later
\* future completed before an earlier one.
C1_Witness ==
    /\ Returned
    /\ Len(responses) >= 2
    /\ Len(completed) >= 2
    /\ completed[1] > completed[2]

\* C2: a failing fetch task (an exception of the backend call, or a
\* non-success status) is never raised out of do_request, and once the run is
\* done the output holds one text per signal.
C2_FailureCapturedPerTask ==
    (\E k \in 1..Len(futures) :
        \/ futures[k].state = "raised"
        \/ futures[k].state = "done" /\ futures[k].resp.status # 200)
    => /\ pc # "raised"
       /\ (pc = "done" => Len(outputs) = Len(attributes))

\* C5: in do_request no result is awaited before the task of every input
\* signal is launched, and when do_request has returned every launched task
\* has completed.
C5_LaunchAllThenAwaitAll ==
    /\ pc = "await" => Len(futures) = Len(attributes)
    /\ Returned =>
         /\ Len(futures) = Len(attributes)
         /\ \A k \in 1..Len(futures) : futures[k].state = "done"

\* C5 witness: do_request returned after launching and awaiting two or more
\* tasks.
C5_Witness == Returned /\ Len(futures) >= 2 /\ awaitIdx > Len(futures)

\* The form <number>[smh]: digits with at most one dot after the first of
\* them, then one unit letter.
NumberThenUnit(val) ==
    /\ Len(val) >= 2
    /\ val[Len(val)] \in UnitChars
    /\ val[1] \in DigitChars
    /\ \A p \in 2..(Len(val) - 1) : val[p] \in DigitChars \cup {"."}
    /\ Cardinality({p \in 1..Len(val) : val[p] = "."}) <= 1

\* C6: with an INTERVAL that is not of the form <number>[smh] no search
\* request and no query request is ever sent, on the command-line run and in
\* query() alike.
C6_MalformedIntervalSendsNothing ==
    (entry \in {"cli", "query"} /\ ~NumberThenUnit(interval))
    => searchSent = 0 /\ queryLog = <<>>

\* C7: query() sends a fetch only when the patterns resolved to exactly one
\* attribute: with none it ends in the no-match error, with two or more in the
\* multiple-match error, and in both cases nothing is fetched.  The
\* command-line run with no match is no error: it goes on with an empty
\* response list and writes nothing.
C7_Cardinality ==
    /\ (entry = "query" /\ queryLog # <<>>) => Len(attributes) = 1
    /\ (entry = "query" /\ pc \notin {"search", "fatal"}) =>
         /\ Len(attributes) = 0 => pc = "nomatch" /\ queryLog = <<>>
         /\ Len(attributes) >= 2 => pc = "ambiguous" /\ queryLog = <<>>
    /\ (entry = "cli" /\ pc \notin {"args", "usage_error", "search", "fatal"}
        /\ Len(attributes) = 0) =>
         /\ pc \in {"submit", "await", "output", "done"}
         /\ queryLog = <<>> /\ responses = <<>> /\ outputs = <<>>

\* C7 witness: query() ended in the multiple-match error, nothing fetched.
C7_Witness ==
    /\ entry = "query" /\ pc = "ambiguous"
    /\ Len(attributes) >= 2 /\ queryLog = <<>>

\* A response that failed or carries no data.
FailedOrEmpty(resp) ==
    \/ resp.status # 200
    \/ Len(resp.array) = 0
    \/ Len(resp.array[1].datapoints) = 0

\* C8: parse_response does not throw on a failed or empty response: its text
\* is the two header lines and nothing else.
C8_FormatterNeverThrows ==
    \A i \in 1..Len(responses) :
        FailedOrEmpty(responses[i]) =>
            /\ ~parse_response(responses[i]).threw
            /\ Len(parse_response(responses[i]).lines) = 2

(***************************************************************************)
(* Properties of parse_datetimerange (SpecSplit, FairSpecSplit)            *)
(***************************************************************************)
\* The number of calendar dates from start's to end's.
NumDates == date(end) - date(start) + 1
\* The interval the query of partition i asks for.
Effective(i) == data_query(periods[i], timeranges[i])

\* C3: a range over N > 1 dates is split into N partitions in ascending date
\* order whose queried intervals do not overlap and leave no instant of the
\* range outside all of them.
C3_PartitionsCoverRange ==
    (lpc = "parsed" /\ NumDates > 1) =>
        /\ Len(periods) = NumDates
        /\ Len(timeranges) = NumDates
        /\ \A i \in 1..Len(periods) : periods[i] = date(start) + i - 1
        /\ \A i \in 1..(Len(periods) - 1) :
             Effective(i).end <= Effective(i + 1).start
        /\ \A x \in start..end :
             \E i \in 1..Len(periods) :
                Effective(i).start <= x /\ x <= Effective(i).end

\* C4: a range within one calendar date, start = end included, gives exactly
\* one partition: that date, with the sub-range (start, end).
C4_SameDateOnePartition ==
    (lpc = "parsed" /\ date(start) = date(end)) =>
        /\ periods = <<date(start)>>
        /\ timeranges = << <<start, end>> >>

\* C4 witness: the zero-length range has been split.
C4_Witness == lpc = "parsed" /\ start = end /\ Len(periods) = 1

\* C10: for a range whose start date is not after its end date the loop ends,
\* after as many iterations as there are days between the two dates, with
\* periods and timeranges of the same length, and the running date never
\* passes the end date.
C10_SplitTerminates ==
    /\ [](lpc = "loop" /\ date(start) <= date(end)
            => runningdate <= date(end))
    /\ [](lpc = "parsed" =>
            /\ Len(periods) = Len(timeranges)
            /\ iterations = date(end) - date(start)
            /\ Len(periods) = iterations + 1)
    /\ (lpc = "parse" /\ date(start) <= date(end)) ~> (lpc = "parsed")

\* C10 witness: the loop ended after two or more iterations.
C10_Witness ==
    /\ lpc = "parsed" /\ iterations >= 2
    /\ runningdate = date(end)

(***************************************************************************)
(* Properties of async_get_data (SpecLow)                                  *)
(***************************************************************************)
\* The instants of the archive's rows that the partitions' queries select.
Selected ==
    {x \in Instants : \E i \in 1..Len(periods) :
        /\ date(x) = periods[i]
        /\ x > Effective(i).start
        /\ x < Effective(i).end}

\* C9: async_get_data issues one query per date partition, all of them
\* before it waits for any result, and returns timestamps and values of the
\* same length: the partitions' rows in ascending date order, hence in
\* chronological order, whatever order the queries completed in.
C9_ConcatenatedInDateOrder ==
    /\ lpc \in {"result", "done", "raised"} =>
         /\ Len(resultsets) = NumDates
         /\ \A i \in 1..Len(resultsets) :
              resultsets[i].query.period = date(start) + i - 1
    /\ lpc = "done" =>
         /\ Len(t) = Len(data)
         /\ t = Ascending(Selected)
         /\ \A j \in 1..Len(t) : data[j] = ValueAt(t[j])
         /\ \A j \in 1..(Len(t) - 1) : t[j] < t[j + 1]

\* C9 witness: async_get_data returned rows of two or more partitions
\* although a later partition's query completed before an earlier one's.
C9_Witness ==
    /\ lpc = "done"
    /\ NumDates >= 2
    /\ finished[1] > finished[2]
    /\ \E j \in 1..(Len(t) - 1) : date(t[j]) < date(t[j + 1])

====
